---- MODULE Spec2Model ----
(***************************************************************************)
(* InvisiText (src/invisi_text.py): zero-width steganography codec.        *)
(*                                                                         *)
(* Text is a sequence of Unicode code points (integers); a bit string is a *)
(* sequence of the one-character strings "0" and "1", as in the Python     *)
(* code; bytes are integers 0..255.                                        *)
(***************************************************************************)
EXTENDS Integers, Sequences, FiniteSets, TLC

\* ---------------------------------------------------------------- bounds
MaxWords == 41       \* carriers have at most this many space-separated tokens
MaxSecretLen == 2    \* secrets have at most this many characters
MaxBits == 16        \* bit strings handed directly to _binary_to_message
MaxTextLen == 5      \* length of the free-form texts handed directly to decode

\* ------------------------------------------------- configuration (l.24-34)
ZERO_BIT == 8203     \* U+200B
ONE_BIT == 8204      \* U+200C
EOT_CHAR == 4        \* U+0004
SPACE == 32          \* the separator ' ' of split(' ') and ' '.join

Min(a, b) == IF a < b THEN a ELSE b

\* ------------------------------------------------------ str.encode('utf-8')
IsSurrogate(cp) == cp >= 55296 /\ cp <= 57343

\* UTF-8 bytes of one code point (not a surrogate)
Utf8EncodeChar(cp) ==
    IF cp < 128 THEN <<cp>>
    ELSE IF cp < 2048 THEN <<192 + (cp \div 64), 128 + (cp % 64)>>
    ELSE IF cp < 65536 THEN
        <<224 + (cp \div 4096), 128 + ((cp \div 64) % 64), 128 + (cp % 64)>>
    ELSE <<240 + (cp \div 262144), 128 + ((cp \div 4096) % 64),
           128 + ((cp \div 64) % 64), 128 + (cp % 64)>>

RECURSIVE Utf8Encode(_)
Utf8Encode(message) ==
    IF message = <<>> THEN <<>>
    ELSE Utf8EncodeChar(Head(message)) \o Utf8Encode(Tail(message))

\* message.encode('utf-8') raises UnicodeEncodeError on a lone surrogate
Utf8Encodable(message) == \A k \in 1..Len(message) : ~IsSurrogate(message[k])

\* -------------------------------------------------------- format(byte,'08b')
Format08b_lsb(byte) ==
    [j \in 1..8 |-> IF (byte \div (2^(j-1))) % 2 = 1 THEN "1" ELSE "0"]

RECURSIVE BinDigits(_, _)
BinDigits(n, width) ==
    IF width = 0 THEN <<>>
    ELSE Append(BinDigits(n \div 2, width - 1), IF n % 2 = 1 THEN "1" ELSE "0")

Format08b(byte) == BinDigits(byte, 8)

RECURSIVE BytesToBinary(_)
BytesToBinary(message_bytes) ==
    IF message_bytes = <<>> THEN <<>>
    ELSE Format08b(Head(message_bytes)) \o BytesToBinary(Tail(message_bytes))

\* _message_to_binary (l.38-57): "" when the conversion raises
_message_to_binary(message) ==
    IF Utf8Encodable(message) THEN BytesToBinary(Utf8Encode(message)) ELSE <<>>

\* ---------------------------------------------------------- int(byte_str, 2)
RECURSIVE ParseBinary(_)
ParseBinary(byte_str) ==
    IF byte_str = <<>> THEN 0
    ELSE 2 * ParseBinary(SubSeq(byte_str, 1, Len(byte_str) - 1))
         + (IF byte_str[Len(byte_str)] = "1" THEN 1 ELSE 0)

\* ------------------------------------------ bytes.decode('utf-8', 'ignore')
IsCont(b) == b >= 128 /\ b <= 191

\* number of bytes of the sequence a lead byte announces; 0: invalid lead
SeqLen(b) ==
    IF b < 128 THEN 1
    ELSE IF b >= 194 /\ b <= 223 THEN 2
    ELSE IF b >= 224 /\ b <= 239 THEN 3
    ELSE IF b >= 240 /\ b <= 244 THEN 4
    ELSE 0

\* is c an acceptable second byte after lead byte b
SecondOk(b, c) ==
    /\ IsCont(c)
    /\ (b = 224 => c >= 160)
    /\ (b = 237 => c <= 159)
    /\ (b = 240 => c >= 144)
    /\ (b = 244 => c <= 143)

\* number of acceptable continuation bytes present after the lead at pos s
RECURSIVE ValidConts(_, _, _, _)
ValidConts(bytes, s, need, k) ==
    IF k > need \/ s + k > Len(bytes) THEN k - 1
    ELSE IF (IF k = 1 THEN SecondOk(bytes[s], bytes[s + 1])
                      ELSE IsCont(bytes[s + k]))
         THEN ValidConts(bytes, s, need, k + 1)
         ELSE k - 1

CodePoint(bytes, s, n) ==
    IF n = 1 THEN bytes[s]
    ELSE IF n = 2 THEN (bytes[s] - 192) * 64 + (bytes[s+1] - 128)
    ELSE IF n = 3 THEN (bytes[s] - 224) * 4096 + (bytes[s+1] - 128) * 64
                       + (bytes[s+2] - 128)
    ELSE (bytes[s] - 240) * 262144 + (bytes[s+1] - 128) * 4096
         + (bytes[s+2] - 128) * 64 + (bytes[s+3] - 128)

\* lenient decoder: an invalid or truncated sequence is dropped, never raised
RECURSIVE Utf8DecodeFrom(_, _)
Utf8DecodeFrom(bytes, s) ==
    IF s > Len(bytes) THEN <<>>
    ELSE LET n == SeqLen(bytes[s]) IN
         IF n = 0 THEN Utf8DecodeFrom(bytes, s + 1)
         ELSE LET v == ValidConts(bytes, s, n - 1, 1) IN
              IF v = n - 1
              THEN <<CodePoint(bytes, s, n)>> \o Utf8DecodeFrom(bytes, s + n)
              ELSE Utf8DecodeFrom(bytes, s + 1 + v)

Utf8DecodeIgnore(bytes) == Utf8DecodeFrom(bytes, 1)

\* ------------------------------------------- _binary_to_message (l.59-93)
\* the for loop of l.72-86, i is the 0-based offset of the current group
RECURSIVE ByteLoop_noeot(_, _, _)
ByteLoop_noeot(binary_stream, i, byte_list) ==
    IF i >= Len(binary_stream) THEN byte_list
    ELSE LET byte_str == SubSeq(binary_stream, i + 1,
                                Min(i + 8, Len(binary_stream))) IN
         IF Len(byte_str) < 8 THEN byte_list
         ELSE ByteLoop_noeot(binary_stream, i + 8,
                             Append(byte_list, ParseBinary(byte_str)))

RECURSIVE ByteLoop_notail(_, _, _)
ByteLoop_notail(binary_stream, i, byte_list) ==
    IF i >= Len(binary_stream) THEN byte_list
    ELSE LET byte_str == SubSeq(binary_stream, i + 1,
                                Min(i + 8, Len(binary_stream)))
             byte_int == ParseBinary(byte_str) IN
         IF byte_int = EOT_CHAR THEN byte_list
         ELSE ByteLoop_notail(binary_stream, i + 8, Append(byte_list, byte_int))

RECURSIVE ByteLoop(_, _, _)
ByteLoop(binary_stream, i, byte_list) ==
    IF i >= Len(binary_stream) THEN byte_list
    ELSE LET byte_str == SubSeq(binary_stream, i + 1,
                                Min(i + 8, Len(binary_stream))) IN
         IF Len(byte_str) < 8 THEN byte_list
         ELSE LET byte_int == ParseBinary(byte_str) IN
              IF byte_int = EOT_CHAR THEN byte_list
              ELSE ByteLoop(binary_stream, i + 8, Append(byte_list, byte_int))

_binary_to_message(binary_stream) ==
    Utf8DecodeIgnore(ByteLoop(binary_stream, 0, <<>>))

\* ------------------------------------------------- loops that only append
\* A loop that appends to its accumulator, for each index in turn, a piece
\* that depends on the index alone, leaves the concatenation of the pieces in
\* index order.  WeaveRange and ScanRange evaluate that concatenation by
\* halving the index range.

\* ------------------------------------------------- str.split(' '), ' '.join
\* tokens of text[lo..hi]: a space ends a token and starts the next, so the
\* tokens of two adjacent ranges meet in one token at the seam
RECURSIVE SplitRange(_, _, _)
SplitRange(text, lo, hi) ==
    IF lo > hi THEN << <<>> >>
    ELSE IF lo = hi THEN (IF text[lo] = SPACE THEN << <<>>, <<>> >>
                                              ELSE << <<text[lo]>> >>)
    ELSE LET mid == (lo + hi) \div 2
             left == SplitRange(text, lo, mid)
             right == SplitRange(text, mid + 1, hi)
         IN  SubSeq(left, 1, Len(left) - 1)
             \o << left[Len(left)] \o right[1] >>
             \o SubSeq(right, 2, Len(right))

Split(text) == SplitRange(text, 1, Len(text))

\* words[lo..hi] with one space between neighbours
RECURSIVE JoinRange(_, _, _)
JoinRange(words, lo, hi) ==
    IF lo > hi THEN <<>>
    ELSE IF lo = hi THEN words[lo]
    ELSE LET mid == (lo + hi) \div 2
         IN  JoinRange(words, lo, mid) \o <<SPACE>> \o JoinRange(words, mid + 1, hi)

Join(words) == JoinRange(words, 1, Len(words))

\* ------------------------------------------------------- encode (l.97-156)
Capacity_off(carrier_words) == Len(carrier_words)

\* len(carrier_words) - 1 of l.131 and l.133
Capacity(carrier_words) == Len(carrier_words) - 1

\* one pass of the weave loop (l.143-150) for the 0-based index i: what it
\* appends to output_words
WeaveStep_before(carrier_words, secret_binary, i) ==
    (IF i < Len(secret_binary)
     THEN << <<IF secret_binary[i + 1] = "1" THEN ONE_BIT ELSE ZERO_BIT>> >>
     ELSE <<>>)
    \o <<carrier_words[i + 1]>>

WeaveStep(carrier_words, secret_binary, i) ==
    <<carrier_words[i + 1]>>
    \o (IF i < Len(secret_binary)
        THEN << <<IF secret_binary[i + 1] = "1" THEN ONE_BIT ELSE ZERO_BIT>> >>
        ELSE <<>>)

\* what the passes lo..hi (0-based) of the loop append, in order
RECURSIVE WeaveRange(_, _, _, _)
WeaveRange(carrier_words, secret_binary, lo, hi) ==
    IF lo > hi THEN <<>>
    ELSE IF lo = hi THEN WeaveStep(carrier_words, secret_binary, lo)
    ELSE LET mid == (lo + hi) \div 2
         IN  WeaveRange(carrier_words, secret_binary, lo, mid)
             \o WeaveRange(carrier_words, secret_binary, mid + 1, hi)

\* output_words after the loop of l.141-150
WeaveLoop(carrier_words, secret_binary) ==
    WeaveRange(carrier_words, secret_binary, 0, Len(carrier_words) - 1)

\* what encode leaves behind when it returns "" before weaving
EncodeFailure(msg, binary, words, report) ==
    [ret |-> <<>>, stderr |-> msg, secret_binary |-> binary,
     carrier_words |-> words, output_words |-> <<>>, report |-> report]

\* l.117-156: everything after the two emptiness checks
EncodeBody(carrier_text, secret_message) ==
    LET secret_with_eot == Append(secret_message, EOT_CHAR)
        secret_binary == _message_to_binary(secret_with_eot)
    IN  IF secret_binary = <<>>
        THEN EncodeFailure("Error: Could not convert secret message to binary.",
                           <<>>, <<>>, <<>>)
        ELSE LET carrier_words == Split(carrier_text) IN
             IF Len(secret_binary) > Capacity(carrier_words)
             THEN EncodeFailure(
                      "Error: Carrier text is not long enough to hold the secret message.",
                      secret_binary, carrier_words,
                      <<Capacity(carrier_words), Len(secret_binary)>>)
             ELSE LET output_words ==
                          WeaveLoop(carrier_words, secret_binary) IN
                  [ret |-> Join(output_words), stderr |-> "",
                   secret_binary |-> secret_binary,
                   carrier_words |-> carrier_words,
                   output_words |-> output_words, report |-> <<>>]

encode_nosecretcheck(carrier_text, secret_message) ==
    IF carrier_text = <<>>
    THEN EncodeFailure("Error: Carrier text cannot be empty.", <<>>, <<>>, <<>>)
    ELSE EncodeBody(carrier_text, secret_message)

encode(carrier_text, secret_message) ==
    IF carrier_text = <<>>
    THEN EncodeFailure("Error: Carrier text cannot be empty.", <<>>, <<>>, <<>>)
    ELSE IF secret_message = <<>>
    THEN EncodeFailure("Error: Secret message cannot be empty.", <<>>, <<>>, <<>>)
    ELSE EncodeBody(carrier_text, secret_message)

\* ------------------------------------------------------ decode (l.158-189)
\* one pass of the scan loop (l.176-180): what it appends to bit_stream
ScanStep_swapped(char) ==
    IF char = ZERO_BIT THEN <<"1">>
    ELSE IF char = ONE_BIT THEN <<"0">>
    ELSE <<>>

ScanStep(char) ==
    IF char = ZERO_BIT THEN <<"0">>
    ELSE IF char = ONE_BIT THEN <<"1">>
    ELSE <<>>

\* what the passes over stego_text[lo..hi] append, in order
RECURSIVE ScanRange(_, _, _)
ScanRange(stego_text, lo, hi) ==
    IF lo > hi THEN <<>>
    ELSE IF lo = hi THEN ScanStep(stego_text[lo])
    ELSE LET mid == (lo + hi) \div 2
         IN  ScanRange(stego_text, lo, mid) \o ScanRange(stego_text, mid + 1, hi)

\* bit_stream after the loop of l.173-180
ScanLoop(stego_text) == ScanRange(stego_text, 1, Len(stego_text))

decode(stego_text) ==
    IF stego_text = <<>>
    THEN [ret |-> <<>>, stderr |-> "Error: Steganographic text cannot be empty.",
          bit_stream |-> <<>>]
    ELSE LET bit_stream == ScanLoop(stego_text) IN
         IF bit_stream = <<>>
         THEN [ret |-> <<>>, stderr |-> "No hidden message found.",
               bit_stream |-> bit_stream]
         ELSE [ret |-> _binary_to_message(bit_stream), stderr |-> "",
               bit_stream |-> bit_stream]

\* main, decode command (l.294-299): what the caller does with decode's value
MainDecodeReport(secret_message) ==
    IF secret_message # <<>> THEN "--- DECODED MESSAGE START ---"
    ELSE "Could not decode a message."

\* ------------------------------------------------------------- the inputs
\* the characters secrets are written with.  main reads the secret with
\* encoding='utf-8' (l.256), so a secret never holds a lone surrogate.
\* "H", "i" and U+0004 (the sentinel itself)
CoreChars == {72, 105, EOT_CHAR}

\* one character of each longer UTF-8 length: U+00E9, U+20AC, U+1F600
WideChars == {233, 8364, 128512}

\* every secret of core characters, and a wide character alone, before or
\* after an "H"
Secrets ==
    UNION {[1..n -> CoreChars] : n \in 0..MaxSecretLen}
    \cup {<<w>> : w \in WideChars}
    \cup {<<w, 72>> : w \in WideChars}
    \cup {<<72, w>> : w \in WideChars}

\* the i-th word of the plain carrier "a b c d ..."
BaseWord(i) == <<97 + ((i - 1) % 26)>>

\* tokens that replace one word of the plain carrier: an empty token (two
\* adjacent spaces, or a leading or trailing space), a token that is a marker,
\* and a word with a marker inside
OddTokens == {<<>>, <<ONE_BIT>>, <<97, ZERO_BIT>>}

\* the carrier of n tokens whose p-th token is tok (p = 0: the plain carrier)
CarrierOf(n, p, tok) == Join([i \in 1..n |-> IF i = p THEN tok ELSE BaseWord(i)])

\* the empty carrier, the plain carriers, and the carriers with an odd token
\* first, in the middle or last
Carriers ==
    {<<>>}
    \cup {CarrierOf(n, 0, <<>>) : n \in 1..MaxWords}
    \cup {CarrierOf(n, p, tok) :
            n \in 1..MaxWords, p \in {1, 9, 17}, tok \in OddTokens}
    \cup {CarrierOf(n, n, tok) : n \in 1..MaxWords, tok \in OddTokens}

\* free-form texts read from a file by the decode command
TextChars == {97, SPACE, ZERO_BIT, ONE_BIT}

Texts == UNION {[1..n -> TextChars] : n \in 0..MaxTextLen}

BitStreams == UNION {[1..n -> {"0", "1"}] : n \in 0..MaxBits}

\* ------------------------------------------------------------- the state
VARIABLES
    pc,              \* which call is pending or done
    carrier_text,    \* encode's arguments
    secret_message,
    secret_binary,   \* encode's locals, as it left them
    carrier_words,
    output_words,
    enc_stderr,      \* encode's error message, "" on success
    enc_report,      \* <<capacity, size>> printed with the capacity error
    stego_text,      \* encode's return value, or the text read by decode
    bit_stream,      \* decode's local
    decoded,         \* decode's return value
    dec_stderr,      \* decode's message on stderr, "" when it decoded
    cli_report,      \* what main prints for decode's return value
    binary_stream,   \* _binary_to_message's argument
    message          \* _binary_to_message's return value

vars == <<pc, carrier_text, secret_message, secret_binary, carrier_words,
          output_words, enc_stderr, enc_report, stego_text, bit_stream,
          decoded, dec_stderr, cli_report, binary_stream, message>>

encVars == <<secret_binary, carrier_words, output_words, enc_stderr, enc_report>>
decVars == <<bit_stream, decoded, dec_stderr, cli_report>>

Blank ==
    /\ secret_binary = <<>> /\ carrier_words = <<>> /\ output_words = <<>>
    /\ enc_stderr = "" /\ enc_report = <<>>
    /\ bit_stream = <<>> /\ decoded = <<>> /\ dec_stderr = "" /\ cli_report = ""
    /\ message = <<>>

\* a call of encode(carrier_text, secret_message) is pending
InitEncode ==
    /\ pc = "encode"
    /\ carrier_text \in Carriers /\ secret_message \in Secrets
    /\ stego_text = <<>> /\ binary_stream = <<>>
    /\ Blank

\* a call of decode(stego_text) on a text read from a file is pending
InitDecode ==
    /\ pc = "decode"
    /\ stego_text \in Texts
    /\ carrier_text = <<>> /\ secret_message = <<>> /\ binary_stream = <<>>
    /\ Blank

\* a call of _binary_to_message(binary_stream) is pending
InitUnpack ==
    /\ pc = "unpack"
    /\ binary_stream \in BitStreams
    /\ carrier_text = <<>> /\ secret_message = <<>> /\ stego_text = <<>>
    /\ Blank

Init == InitEncode \/ InitDecode \/ InitUnpack

\* encode(carrier_text, secret_message) runs to its return
Encode ==
    /\ pc = "encode"
    /\ LET r == encode(carrier_text, secret_message) IN
        /\ stego_text' = r.ret
        /\ enc_stderr' = r.stderr
        /\ secret_binary' = r.secret_binary
        /\ carrier_words' = r.carrier_words
        /\ output_words' = r.output_words
        /\ enc_report' = r.report
    /\ pc' = "encoded"
    /\ UNCHANGED <<carrier_text, secret_message, decVars, binary_stream, message>>

\* decode(stego_text) runs to its return, on a text read from a file or on
\* what encode returned; main then reports on the value
Decode ==
    /\ pc \in {"decode", "encoded"}
    /\ LET r == decode(stego_text) IN
        /\ decoded' = r.ret
        /\ dec_stderr' = r.stderr
        /\ bit_stream' = r.bit_stream
        /\ cli_report' = MainDecodeReport(r.ret)
    /\ pc' = IF pc = "encoded" THEN "roundtrip" ELSE "decoded"
    /\ UNCHANGED <<carrier_text, secret_message, encVars, stego_text,
                   binary_stream, message>>

\* _binary_to_message(binary_stream) runs to its return
BinaryToMessage ==
    /\ pc = "unpack"
    /\ message' = _binary_to_message(binary_stream)
    /\ pc' = "unpacked"
    /\ UNCHANGED <<carrier_text, secret_message, encVars, stego_text, decVars,
                   binary_stream>>

Next == Encode \/ Decode \/ BinaryToMessage

Spec == Init /\ [][Next]_vars

\* ================================================================ claims
\* vocabulary of the claims, stated without the operators they are about
IsMarker(ch) == ch = ZERO_BIT \/ ch = ONE_BIT

HasMarker(text) == \E k \in 1..Len(text) : IsMarker(text[k])

StripMarkers(text) == SelectSeq(text, LAMBDA ch : ~IsMarker(ch))

MarkersOf(text) == SelectSeq(text, IsMarker)

\* number of gaps of a carrier: tokens minus one, i.e. its space characters
Gaps(text) == Cardinality({k \in 1..Len(text) : text[k] = SPACE})

\* M(0) = U+200B, M(1) = U+200C
MarkerFor(bit) == IF bit = "1" THEN ONE_BIT ELSE ZERO_BIT

\* the r-th bit (1 = most significant) of a byte
BitOf(byte, r) == IF (byte \div (2^(8 - r))) % 2 = 1 THEN "1" ELSE "0"

\* value of the j-th complete 8-bit group (j from 1) of a bit string
GroupValue(bits, j) ==
    LET b(r) == IF bits[8 * (j - 1) + r] = "1" THEN 1 ELSE 0
    IN  128 * b(1) + 64 * b(2) + 32 * b(3) + 16 * b(4)
        + 8 * b(5) + 4 * b(6) + 2 * b(7) + b(8)

\* values of the complete groups before the first aligned group equal to 0x04
GroupsBeforeSentinel(bits) ==
    LET ngroups == Len(bits) \div 8
        hits == {j \in 1..ngroups : GroupValue(bits, j) = 4}
        stop == IF hits = {} THEN ngroups + 1
                ELSE CHOOSE j \in hits : \A h \in hits : j <= h
    IN  [j \in 1..(stop - 1) |-> GroupValue(bits, j)]

\* the part of a text before its first U+0004 (all of it if there is none)
BeforeEOT(text) ==
    LET hits == {k \in 1..Len(text) : text[k] = 4}
    IN  IF hits = {} THEN text
        ELSE SubSeq(text, 1, (CHOOSE k \in hits : \A h \in hits : k <= h) - 1)

\* the bit string occurs at offset o (0-based) of bits
PatternAt(bits, o) ==
    /\ o + 8 <= Len(bits)
    /\ SubSeq(bits, o + 1, o + 8) = <<"0", "0", "0", "0", "0", "1", "0", "0">>

EncodeSucceeded == pc \in {"encoded", "roundtrip"} /\ enc_stderr = "" /\ stego_text # <<>>

CapacityError == "Error: Carrier text is not long enough to hold the secret message."

\* bits needed for a secret: 8 per UTF-8 byte, plus the sentinel byte
RequiredBits(secret) == 8 * (Len(Utf8Encode(secret)) + 1)

\* C1: round trip. For every non-empty secret whose UTF-8 bytes hold no 0x04
\* and every carrier with at least 8*(bytes+1) gaps, carriers with marker
\* characters in their tokens included, decode(encode(carrier, m)) = m.
RoundTrip ==
    (/\ pc = "roundtrip"
     /\ secret_message # <<>>
     /\ \A k \in 1..Len(Utf8Encode(secret_message)) : Utf8Encode(secret_message)[k] # 4
     /\ Gaps(carrier_text) >= RequiredBits(secret_message))
    => decoded = secret_message

\* C2: non-interference. After a successful encode, the stego text with every
\* marker character deleted is the carrier's tokens joined by single spaces.
NonInterference ==
    EncodeSucceeded => StripMarkers(stego_text) = Join(Split(carrier_text))

\* C3: capacity boundary. With k gaps and n bits to weave, encode succeeds
\* when n <= k and fails when n > k, reporting capacity k and size n;
\* "a b c d e f g h i j" with "Hi" fails with capacity 9, size 24.
CapacityBoundary ==
    (pc = "encoded" /\ carrier_text # <<>> /\ secret_message # <<>>)
    => LET k == Gaps(carrier_text)
           n == RequiredBits(secret_message)
       IN  /\ n <= k => (enc_stderr = "" /\ stego_text # <<>> /\ enc_report = <<>>)
           /\ n > k => (/\ stego_text = <<>>
                        /\ enc_stderr = CapacityError
                        /\ enc_report = <<k, n>>)
           /\ (carrier_text = CarrierOf(10, 0, <<>>) /\ secret_message = <<72, 105>>)
              => (stego_text = <<>> /\ enc_report = <<9, 24>>)

\* a carrier one gap short of what the secret needs was rejected
CapacityBoundaryWitness ==
    /\ pc = "encoded"
    /\ secret_message # <<>>
    /\ RequiredBits(secret_message) = Gaps(carrier_text) + 1
    /\ enc_report = <<Gaps(carrier_text), Gaps(carrier_text) + 1>>

\* C4 as claimed: the bytes of what _binary_to_message returns are exactly
\* the values of the complete groups before the first aligned 0x04 group.
SentinelTerminationBytes ==
    pc = "unpacked" => Utf8Encode(message) = GroupsBeforeSentinel(binary_stream)

\* C4 amended: what _binary_to_message returns is the UTF-8 decoding, with
\* invalid sequences dropped, of exactly the values of the complete groups
\* before the first aligned 0x04 group (for ASCII values: those values
\* themselves); every later bit is excluded and an unaligned 00000100 does
\* not terminate.  A secret containing U+0004, hidden in a carrier without
\* markers, decodes to the part before its first U+0004.
SentinelTermination ==
    /\ pc = "unpacked" =>
        LET g == GroupsBeforeSentinel(binary_stream) IN
        /\ message = Utf8DecodeIgnore(g)
        /\ (\A j \in 1..Len(g) : g[j] < 128) => message = g
    /\ (pc = "roundtrip" /\ EncodeSucceeded /\ ~HasMarker(carrier_text))
        => decoded = BeforeEOT(secret_message)

\* a byte, then the aligned sentinel, with 00000100 also present unaligned
SentinelTerminationWitness ==
    /\ pc = "unpacked"
    /\ Len(binary_stream) = 16
    /\ GroupValue(binary_stream, 2) = 4
    /\ PatternAt(binary_stream, 1)
    /\ message = <<GroupValue(binary_stream, 1)>>

\* C5: truncation tolerance. For a bit string whose length L is not a
\* multiple of 8, _binary_to_message returns what it returns on the prefix of
\* length 8*floor(L/8); with fewer than 8 bits it returns the empty string.
TruncationTolerance ==
    (pc = "unpacked" /\ Len(binary_stream) % 8 # 0)
    => LET L == Len(binary_stream)
           prefix == SubSeq(binary_stream, 1, 8 * (L \div 8))
       IN  /\ message = _binary_to_message(prefix)
           /\ message = Utf8DecodeIgnore(GroupsBeforeSentinel(prefix))
           /\ L < 8 => message = <<>>

\* a complete byte followed by an incomplete group was decoded
TruncationToleranceWitness ==
    /\ pc = "unpacked"
    /\ Len(binary_stream) > 8 /\ Len(binary_stream) % 8 # 0
    /\ message # <<>>

\* C6: a successful decode that found nothing never returns the value that
\* decode returns for the hard error of an empty input.
EmptyResultDistinguished ==
    (pc \in {"decoded", "roundtrip"} /\ stego_text # <<>> /\ decoded = <<>>)
    => decoded # decode(<<>>).ret

\* C7: the bit string decode scans out of a text is the subsequence of its
\* marker characters, U+200B as "0" and U+200C as "1"; a non-empty text
\* without markers gives the empty bit string and the 'no message' result.
ExtractionTotal ==
    pc \in {"decoded", "roundtrip"}
    => /\ Len(bit_stream) = Len(MarkersOf(stego_text))
       /\ \A k \in 1..Len(bit_stream) :
            bit_stream[k] = IF MarkersOf(stego_text)[k] = ZERO_BIT THEN "0" ELSE "1"
       /\ (stego_text # <<>> /\ ~HasMarker(stego_text))
          => (/\ bit_stream = <<>>
              /\ decoded = <<>>
              /\ dec_stderr = "No hidden message found.")

\* a text mixing both markers with other characters was scanned
ExtractionTotalWitness ==
    /\ pc = "decoded"
    /\ \E k \in 1..Len(stego_text) : stego_text[k] = ZERO_BIT
    /\ \E k \in 1..Len(stego_text) : stego_text[k] = ONE_BIT
    /\ Len(bit_stream) < Len(stego_text)

\* C8: encode fails with the empty-carrier error for an empty carrier, with
\* the empty-secret error for a non-empty carrier and an empty secret, in both
\* cases without packing or weaving; a carrier without a space fails with the
\* capacity error for every non-empty secret.
EncodeValidation ==
    pc = "encoded"
    => /\ carrier_text = <<>>
          => (/\ enc_stderr = "Error: Carrier text cannot be empty."
              /\ stego_text = <<>> /\ secret_binary = <<>> /\ output_words = <<>>)
       /\ (carrier_text # <<>> /\ secret_message = <<>>)
          => (/\ enc_stderr = "Error: Secret message cannot be empty."
              /\ stego_text = <<>> /\ secret_binary = <<>> /\ output_words = <<>>)
       /\ (carrier_text # <<>> /\ Gaps(carrier_text) = 0 /\ secret_message # <<>>)
          => (enc_stderr = CapacityError /\ stego_text = <<>>)

\* an empty secret was refused although the carrier had room for a sentinel
EncodeValidationWitness ==
    /\ pc = "encoded"
    /\ Gaps(carrier_text) >= 8 /\ secret_message = <<>>
    /\ enc_stderr = "Error: Secret message cannot be empty."

\* C9: on success with n bits b and m tokens t, the elements joined are
\* t[0], M(b[0]), ..., t[n-1], M(b[n-1]), t[n], ..., t[m-1]: one marker per
\* bit, bit i right after token i, no marker after a token of index >= n.
BitToGapPlacement ==
    (pc = "encoded" /\ EncodeSucceeded)
    => LET t == carrier_words
           m == Len(carrier_words)
           b == secret_binary
           n == Len(secret_binary)
       IN  /\ t = Split(carrier_text)
           /\ n <= m - 1
           /\ Len(output_words) = m + n
           /\ \A i \in 1..n : /\ output_words[2 * i - 1] = t[i]
                              /\ output_words[2 * i] = <<MarkerFor(b[i])>>
           /\ \A i \in (n + 1)..m : output_words[n + i] = t[i]
           /\ stego_text = Join(output_words)

\* a carrier with more gaps than bits was woven: its tail carries no marker
BitToGapPlacementWitness ==
    /\ pc = "encoded" /\ EncodeSucceeded
    /\ Len(secret_binary) + 1 < Len(carrier_words)
    /\ HasMarker(carrier_text)

\* C10: for a carrier without markers and a successful encode, the bits
\* decode scans out of the stego text are pack(secret): each UTF-8 byte of
\* the secret most significant bit first, then 00000100; 8*(bytes+1) bits,
\* and exactly that many marker characters in the stego text.
ExtractedIsPacked ==
    (pc = "roundtrip" /\ EncodeSucceeded /\ ~HasMarker(carrier_text))
    => LET payload == Append(Utf8Encode(secret_message), 4) IN
       /\ Len(bit_stream) = 8 * Len(payload)
       /\ Len(bit_stream) = RequiredBits(secret_message)
       /\ Len(bit_stream) % 8 = 0
       /\ \A j \in 1..Len(payload) : \A r \in 1..8 :
            bit_stream[8 * (j - 1) + r] = BitOf(payload[j], r)
       /\ Len(MarkersOf(stego_text)) = Len(bit_stream)

\* a secret with a multi-byte character went through encode and the scan
ExtractedIsPackedWitness ==
    /\ pc = "roundtrip" /\ EncodeSucceeded /\ ~HasMarker(carrier_text)
    /\ \E k \in 1..Len(secret_message) : secret_message[k] > 127
    /\ Len(bit_stream) >= 24

====
